---- MODULE Spec2Model ----
(***************************************************************************)
(* Event-ticketing backend: the event routes (/api/events) and the booking *)
(* routes (/api/booking/...) as a state machine over the two collections,  *)
(* the media store, the mail transport and the requests in flight.         *)
(*                                                                         *)
(* A handler is an async function: it runs to its first await, and again   *)
(* from each awaited call's result to the next await or to the response,   *)
(* other requests being served in between.  A step of the model is the     *)
(* effect of one awaited call on the stores together with the handler's    *)
(* code up to the next awaited call.  The code from the arrival of the     *)
(* request to its first awaited call is taken with that call when it       *)
(* touches nothing shared, which is the case in every handler but the      *)
(* event create without files (it constructs the document first).  The     *)
(* handlers themselves have no bounds; a run admits a request that goes on *)
(* to await only while it has room for what the request will do.           *)
(***************************************************************************)
EXTENDS Integers, Sequences, FiniteSets, Bags, TLC

VARIABLES
    events,         \* Event collection: ObjectId -> document
    eventsMade,     \* number of Event documents ever constructed (next ObjectId)
    bookings,       \* Booking collection: ObjectId -> document
    bookingsMade,   \* number of Booking documents ever constructed
    media,          \* URLs of the objects the media store holds
    outbox,         \* mails handed to the transport, in order
    asSubmitted,    \* history: event id -> body it was created from, while never updated
    statusSet,      \* history: ids of bookings a successful update-status addressed
    inFlight,       \* bag of the requests waiting on a call, each with its position
    last            \* route, status and failure cause of the request last answered

vars == <<events, eventsMade, bookings, bookingsMade, media, outbox,
          asSubmitted, statusSet, inFlight, last>>

-----------------------------------------------------------------------------
(* Bounds of the model *)

MaxInFlight == 2      \* requests waiting on a call at one time in a run
MaxEvents == 2        \* Event documents constructed in one run
MaxBookings == 2      \* Booking documents constructed in one run
MaxUploads == 2       \* files the event routes upload in one run
MaxLogoFiles == 1     \* sponsorLogos files attached to one request
MaxMails == 2         \* mails handed to the transport in one run
RandSubdiv == 2       \* Math.random() is resolved to 1/(TicketSpan*RandSubdiv)

-----------------------------------------------------------------------------
(* Strings that are inspected character by character are tuples of         *)
(* one-character strings.                                                   *)

Rep(c, n) == [i \in 1..n |-> c]

Digits == {"0", "1", "2", "3", "4", "5", "6", "7", "8", "9"}

HexChars == Digits \cup {"a", "b", "c", "d", "e", "f"} \cup {"A", "B", "C", "D", "E", "F"}

ObjectIdLen == 24

\* The pattern without its end anchor: /^[0-9a-fA-F]{24}/
StartsWithObjectId(id) ==
    /\ Len(id) >= ObjectIdLen
    /\ \A i \in 1..ObjectIdLen : id[i] \in HexChars

\* id.match(/^[0-9a-fA-F]{24}$/)
IsObjectIdString(id) ==
    /\ Len(id) = ObjectIdLen
    /\ \A i \in 1..Len(id) : id[i] \in HexChars

LowerHex(c) ==
    CASE c = "A" -> "a" [] c = "B" -> "b" [] c = "C" -> "c"
      [] c = "D" -> "d" [] c = "E" -> "e" [] c = "F" -> "f"
      [] OTHER -> c

CastError == <<"CastError">>

\* The cast findById / findByIdAndUpdate / save apply to an id given as a
\* string: 24 hex characters denote the ObjectId with those hex digits
\* (letter case is immaterial), anything else is a CastError.
CastObjectId(id) ==
    IF IsObjectIdString(id) THEN [i \in 1..Len(id) |-> LowerHex(id[i])] ELSE CastError

UpperHex(c) ==
    CASE c = "a" -> "A" [] c = "b" -> "B" [] c = "c" -> "C"
      [] c = "d" -> "D" [] c = "e" -> "E" [] c = "f" -> "F"
      [] OTHER -> c

\* An id as a client may write it, its letters in upper case.
InUpperCase(id) == [ i \in 1..Len(id) |-> UpperHex(id[i]) ]

HexDigitChars ==
    << "0", "1", "2", "3", "4", "5", "6", "7", "8", "9", "a", "b", "c", "d", "e", "f" >>

RECURSIVE HexOf(_, _)
\* The last `len` hexadecimal digits of n.
HexOf(n, len) ==
    IF len = 0 THEN <<>>
    ELSE Append(HexOf(n \div 16, len - 1), HexDigitChars[(n % 16) + 1])

\* ObjectIds the persistence layer hands out: every new document gets an id
\* no other document has, digits that are the same in all ids of a
\* collection followed by a counter of three bytes.
NthEventId(n) == Rep("e", ObjectIdLen - ObjectIdLen \div 4) \o HexOf(n, ObjectIdLen \div 4)
NthBookingId(n) == Rep("b", ObjectIdLen - ObjectIdLen \div 4) \o HexOf(n, ObjectIdLen \div 4)

\* The id of the next document constructed after `made` of them.
NextEventId(made) == NthEventId(made + 1)
NextBookingId(made) == NthBookingId(made + 1)

\* :id values that are no ObjectId.
MalformedIds ==
    { Rep("a", ObjectIdLen - 1),            \* too short
      Rep("1", ObjectIdLen + 1),            \* too long
      Rep("a", ObjectIdLen - 1) \o <<"g">>  \* a non-hex character
    }

\* The :id values requests to the event routes carry.
EventRequestIds ==
    { NthEventId(n) : n \in 1..MaxEvents } \cup MalformedIds \cup
    { InUpperCase(NthEventId(1)) }

\* The :id values requests to the booking routes carry.
BookingRequestIds ==
    { NthBookingId(n) : n \in 1..MaxBookings } \cup MalformedIds \cup
    { Rep("f", ObjectIdLen) }

Undefined == "<undefined>"
NoId == <<>>
NoBody == [none |-> TRUE]

\* A test for undefined alone, as of  f ?? event.f
IsDefined(v) == v # Undefined

\* JavaScript truthiness of a body value (a string or undefined).
Truthy(v) == v # Undefined /\ v # ""

-----------------------------------------------------------------------------
(* Requests in flight and what a step of a handler yields *)

\* The stores as a step finds them.
Stores ==
    [ events |-> events, eventsMade |-> eventsMade, bookings |-> bookings,
      bookingsMade |-> bookingsMade, media |-> media, outbox |-> outbox,
      asSubmitted |-> asSubmitted, statusSet |-> statusSet ]

\* A request waiting on a call: pc names the call ("start": the request has
\* just arrived), doc is the document the handler holds in memory, urls the
\* URLs its uploads returned so far, dirty the paths of doc it has modified.
Waiting(route, pc, req, doc, urls, dirty) ==
    [ route |-> route, pc |-> pc, req |-> req, doc |-> doc, urls |-> urls, dirty |-> dirty ]

Arrived(route, req) == Waiting(route, "start", req, NoBody, <<>>, {})

Done == [ done |-> TRUE ]
NoFlag == "absent"

\* The handler answers: status, the collaborator whose failure it reports
\* (cause), whether the step issued a database call (queried), the valid
\* flag and the document of the body, and the stores it leaves.
Answer(status, cause, queried, valid, doc, st) ==
    [ status |-> status, cause |-> cause, queried |-> queried, valid |-> valid,
      doc |-> doc, next |-> Done, st |-> st ]

\* The handler awaits its next call.
Await(w, queried, st) ==
    [ status |-> 0, cause |-> "none", queried |-> queried, valid |-> NoFlag,
      doc |-> NoBody, next |-> w, st |-> st ]

Without(f, k) == [ i \in DOMAIN f \ {k} |-> f[i] ]

-----------------------------------------------------------------------------
(* Requests of the event routes *)

EventFields ==
    { "title", "description", "date", "location", "category", "address",
      "standardPrice", "vipPrice", "eventTime", "refreshments" }

\* req.body values: the named text fields of the form, any subset of them.
Concert ==
    [ title |-> "Concert", description |-> "Live", date |-> "2025-01-01",
      location |-> "Hall", category |-> "Music", address |-> "1 Main St",
      standardPrice |-> "100", vipPrice |-> "250", eventTime |-> "19:00",
      refreshments |-> "Yes" ]
Retitle == [ title |-> "Gala" ]
Reprice == [ standardPrice |-> "0", vipPrice |-> "" ]
NoFields == [ f \in {} |-> "" ]

\* const { title, ... } = req.body : a field the body lacks reads undefined.
Field(body, f) == IF f \in DOMAIN body THEN body[f] ELSE Undefined

-----------------------------------------------------------------------------
(* Media store adapter *)

\* The files of a request in the order the handler uploads them: the primary
\* image first, then each sponsor logo.
EventFiles(nImage, nLogos) ==
    (IF nImage > 0 THEN <<"events">> ELSE <<>>) \o Rep("events/sponsors", nLogos)

\* uploadToCloudinary resolves with the secure_url of a new object; the k-th
\* upload into a store that holds `held`.
UploadedUrl(held, k) == "https://media/" \o ToString(Cardinality(held) + k)

\* An upload that leaves nothing behind in the store.
StoreDiscarded(held, nStored) == held

\* The store after nStored more uploads went through.
StoreAfter(held, nStored) == held \cup { UploadedUrl(held, k) : k \in 1..nStored }

-----------------------------------------------------------------------------
(* Admin gate and the routes behind it *)

\* authAdmin: lets an admin-authenticated request through to the next
\* handler and answers every other request itself.
AuthAdminPasses(admin) == admin

UnauthorizedStatus == 401

\* The registration with the delete route left open.
AdminRoutesButDelete == { "AddEvent", "PutEvent" }

\* The routes registered with authAdmin in front of their handler.
AdminRoutes == { "AddEvent", "PutEvent", "DeleteEvent" }

Gate(route, admin) == route \in AdminRoutes => AuthAdminPasses(admin)

-----------------------------------------------------------------------------
(* Event documents *)

\* The Event schema keeps the text of a field as it was submitted.
EventSchemaValue(f, v) == v

\* The create handler with the two prices passed in each other's place.
NewEventDocPricesSwapped(id, seq, body, imageUrl, sponsorLogos) ==
    [ f \in EventFields |->
        EventSchemaValue(f, Field(body, CASE f = "standardPrice" -> "vipPrice"
                                          [] f = "vipPrice" -> "standardPrice"
                                          [] OTHER -> f)) ] @@
    [ _id |-> id, imageUrl |-> imageUrl, sponsorLogos |-> sponsorLogos, createdAt |-> seq ]

\* new Event({ title, ..., imageUrl, sponsorLogos }) : the document the
\* create handler builds from the body and the uploaded URLs.
NewEventDoc(id, seq, body, imageUrl, sponsorLogos) ==
    [ f \in EventFields |-> EventSchemaValue(f, Field(body, f)) ] @@
    [ _id |-> id, imageUrl |-> imageUrl, sponsorLogos |-> sponsorLogos, createdAt |-> seq ]

\* The assignment without its fallback: event.f = f
MergeNoFallback(supplied, previous) == supplied

\* event.f = f || event.f
Merge(supplied, previous) == IF Truthy(supplied) THEN supplied ELSE previous

\* The document in memory after the ten assignments of the update handler.
UpdatedEventDoc(doc, body) ==
    [ k \in DOMAIN doc |-> IF k \in EventFields THEN Merge(Field(body, k), doc[k]) ELSE doc[k] ]

\* The paths of a document in memory whose value differs from the one it
\* was loaded with: an assignment of the value a path holds already does
\* not mark it modified.
Modified(loaded, doc) == { k \in DOMAIN doc : doc[k] # loaded[k] }

\* document.save() of a loaded document: writes the modified paths to the
\* stored document and leaves its other paths as they are stored.
SavedOver(stored, doc, dirty) == [ k \in DOMAIN stored |-> IF k \in dirty THEN doc[k] ELSE stored[k] ]

\* Event.findById(id)
FindEvent(id) ==
    LET oid == CastObjectId(id)
    IN IF oid \in DOMAIN events THEN events[oid] ELSE NoBody

RECURSIVE NewestFirst(_)
\* .sort({ createdAt: -1 }) over a set of documents
NewestFirst(docs) ==
    IF docs = {} THEN <<>>
    ELSE LET top == CHOOSE d \in docs : \A e \in docs : e.createdAt <= d.createdAt
         IN <<top>> \o NewestFirst(docs \ {top})

-----------------------------------------------------------------------------
(* Requests to the event routes, each with what its collaborators do while *)
(* it is served: fault names the call that fails ("find": the lookup,      *)
(* "storage": an upload, "save": the write), stored the uploads that go    *)
(* through before a failing one.                                           *)

EventReq(admin, multipart, id, body, nImage, nLogos, fault, stored) ==
    [ admin |-> admin, multipart |-> multipart, id |-> id, body |-> body,
      nImage |-> nImage, nLogos |-> nLogos, fault |-> fault, stored |-> stored ]

\* The files one request attaches: none, or the image with as many logos as
\* a request carries.
NoFiles == <<0, 0>>
AllFiles == <<1, MaxLogoFiles>>

WriteReq(id, body, files, fault, stored) ==
    EventReq(TRUE, TRUE, id, body, files[1], files[2], fault, stored)

\* The requests that fail on the way: an upload rejects, the first or the
\* last of the request's; the write rejects after the uploads (of the image
\* alone, of all files); the body is JSON (no multipart parsing, no
\* req.files); the sender is no admin.
FailingWrites(id) ==
    { WriteReq(id, Concert, AllFiles, "storage", n) : n \in {0, MaxLogoFiles} }
    \cup { WriteReq(id, Concert, f, "save", f[1] + f[2]) : f \in { <<1, 0>>, AllFiles } }
    \cup { EventReq(TRUE, FALSE, id, Concert, 0, 0, "none", 0) }
    \cup { EventReq(FALSE, TRUE, id, Concert, 1, 0, "none", 1) }

\* The read and delete requests for `id` (list: id = NoId).
Asks(id) ==
    { EventReq(a, TRUE, id, NoFields, 0, 0, "none", 0) : a \in BOOLEAN }
    \cup { EventReq(TRUE, TRUE, id, NoFields, 0, 0, flt, 0) : flt \in {"find", "save"} }

HandedOut == { NthEventId(n) : n \in 1..MaxEvents }

\* Creates: the whole form, without files and with all of them.
AddRequests ==
    { WriteReq(NoId, Concert, f, "none", f[1] + f[2]) : f \in { NoFiles, AllFiles } }
    \cup FailingWrites(NoId)

\* Updates: of each event the title alone, two prices (one of them empty)
\* and nothing at all, the title also with new files; the failing ones of
\* the first event; the title of each other id.
PutRequests ==
    { WriteReq(id, b, NoFiles, "none", 0) :
        id \in HandedOut, b \in { Retitle, Reprice, NoFields } }
    \cup { WriteReq(NthEventId(1), Retitle, AllFiles, "none", AllFiles[1] + AllFiles[2]) }
    \cup FailingWrites(NthEventId(1))
    \cup { WriteReq(NthEventId(1), Concert, NoFiles, "find", 0) }
    \cup { WriteReq(id, Retitle, NoFiles, "none", 0) : id \in EventRequestIds }
ListRequests == { r \in Asks(NoId) : r.fault # "save" }
GetRequests ==
    { r \in UNION { Asks(id) : id \in EventRequestIds } :
        r.fault = "none" \/ (r.fault = "find" /\ r.id = NthEventId(1)) }
DeleteRequests ==
    { r \in UNION { Asks(id) : id \in EventRequestIds } :
        r.fault = "none" \/ r.id = NthEventId(1) }

-----------------------------------------------------------------------------
(* Event route handlers, step by step *)

\* await uploadToCloudinary(...) of the next file of a create or update
\* request resolves: the store takes the object, or the call rejects.
UploadFails(w) == w.req.fault = "storage" /\ Len(w.urls) = w.req.stored

\* newEvent.save() is awaited with the document built from the body and
\* the URLs of the uploads.
AwaitEventSave(w, urls, st) ==
    LET id == NextEventId(st.eventsMade)
        imageUrl == IF w.req.nImage > 0 THEN urls[1] ELSE ""
        sponsorLogos == SubSeq(urls, w.req.nImage + 1, Len(urls))
        doc == NewEventDoc(id, st.eventsMade + 1, w.req.body, imageUrl, sponsorLogos)
    IN Await(Waiting("AddEvent", "save", w.req, doc, urls, {}), FALSE,
             [ st EXCEPT !.eventsMade = @ + 1 ])

\* POST /api/events/add, from the arrival or from the start of an upload to
\* the next awaited call
AddEventUploads(w) ==
    LET files == EventFiles(w.req.nImage, w.req.nLogos)
        urls == Append(w.urls, UploadedUrl(media, 1))
        held == [ Stores EXCEPT !.media = StoreAfter(media, 1) ]
    IN
    IF w.pc = "start" /\ ~Gate("AddEvent", w.req.admin) THEN
        Answer(UnauthorizedStatus, "none", FALSE, NoFlag, NoBody, Stores)
    \* without a multipart body req.files is undefined: req.files.imageUrl throws
    ELSE IF w.pc = "start" /\ ~w.req.multipart THEN
        Answer(500, "none", FALSE, NoFlag, NoBody, Stores)
    ELSE IF files = <<>> THEN AwaitEventSave(w, <<>>, Stores)
    ELSE IF UploadFails(w) THEN Answer(500, "storage", FALSE, NoFlag, NoBody, Stores)
    ELSE IF Len(urls) < Len(files) THEN
        Await(Waiting("AddEvent", "upload", w.req, NoBody, urls, {}), FALSE, held)
    ELSE AwaitEventSave(w, urls, held)

\* POST /api/events/add: newEvent.save() resolves or rejects
AddEventSaves(w) ==
    IF w.req.fault = "save" THEN Answer(500, "db", TRUE, NoFlag, NoBody, Stores)
    ELSE Answer(201, "none", TRUE, NoFlag, w.doc,
                [ Stores EXCEPT !.events = (w.doc._id :> w.doc) @@ @,
                                !.asSubmitted = (w.doc._id :> w.req.body) @@ @ ])

\* GET /api/events
HandleListEvents(w) ==
    IF ~Gate("ListEvents", w.req.admin) THEN
        Answer(UnauthorizedStatus, "none", FALSE, NoFlag, NoBody, Stores)
    ELSE IF w.req.fault = "find" THEN Answer(500, "db", TRUE, NoFlag, NoBody, Stores)
    ELSE Answer(200, "none", TRUE, NoFlag,
                [ list |-> NewestFirst({ events[i] : i \in DOMAIN events }) ], Stores)

\* GET /api/events/:id
HandleGetEvent(w) ==
    IF ~Gate("GetEvent", w.req.admin) THEN
        Answer(UnauthorizedStatus, "none", FALSE, NoFlag, NoBody, Stores)
    ELSE IF ~IsObjectIdString(w.req.id) THEN Answer(400, "none", FALSE, NoFlag, NoBody, Stores)
    ELSE IF w.req.fault = "find" THEN Answer(500, "db", TRUE, NoFlag, NoBody, Stores)
    ELSE IF FindEvent(w.req.id) = NoBody THEN Answer(404, "none", TRUE, NoFlag, NoBody, Stores)
    ELSE Answer(200, "none", TRUE, NoFlag, FindEvent(w.req.id), Stores)

\* PUT /api/events/:id, from the arrival to the first upload or to the
\* save: the lookup resolves, the ten fields are assigned
PutEventFinds(w) ==
    LET found == FindEvent(w.req.id)
        doc == UpdatedEventDoc(found, w.req.body)
        to == IF EventFiles(w.req.nImage, w.req.nLogos) = <<>> THEN "save" ELSE "upload"
    IN
    IF ~Gate("PutEvent", w.req.admin) THEN
        Answer(UnauthorizedStatus, "none", FALSE, NoFlag, NoBody, Stores)
    ELSE IF ~IsObjectIdString(w.req.id) THEN Answer(400, "none", FALSE, NoFlag, NoBody, Stores)
    ELSE IF w.req.fault = "find" THEN Answer(500, "db", TRUE, NoFlag, NoBody, Stores)
    ELSE IF found = NoBody THEN Answer(404, "none", TRUE, NoFlag, NoBody, Stores)
    \* without a multipart body req.files is undefined: req.files.imageUrl throws
    ELSE IF ~w.req.multipart THEN Answer(500, "none", TRUE, NoFlag, NoBody, Stores)
    ELSE Await(Waiting("PutEvent", to, w.req, doc, <<>>, Modified(found, doc)), TRUE, Stores)

\* PUT /api/events/:id: an upload resolves or rejects; the image is assigned
\* when it is uploaded, the logos when the last of them is
PutEventUploads(w) ==
    LET files == EventFiles(w.req.nImage, w.req.nLogos)
        urls == Append(w.urls, UploadedUrl(media, 1))
        held == [ Stores EXCEPT !.media = StoreAfter(media, 1) ]
        isImage == w.req.nImage > 0 /\ Len(urls) = 1
        isLastLogo == w.req.nLogos > 0 /\ Len(urls) = Len(files)
        doc == [ w.doc EXCEPT
                   !.imageUrl = IF isImage THEN urls[1] ELSE @,
                   !.sponsorLogos = IF isLastLogo
                                    THEN SubSeq(urls, w.req.nImage + 1, Len(urls)) ELSE @ ]
        dirty == w.dirty \cup (IF isImage THEN {"imageUrl"} ELSE {})
                         \cup (IF isLastLogo THEN {"sponsorLogos"} ELSE {})
        to == IF Len(urls) < Len(files) THEN "upload" ELSE "save"
    IN
    IF UploadFails(w) THEN Answer(500, "storage", FALSE, NoFlag, NoBody, Stores)
    ELSE Await(Waiting("PutEvent", to, w.req, doc, urls, dirty), FALSE, held)

\* PUT /api/events/:id: event.save() resolves, or rejects: the database
\* fails, or the document is no longer stored (DocumentNotFoundError)
PutEventSaves(w) ==
    LET id == w.doc._id
    IN
    IF w.req.fault = "save" THEN Answer(500, "db", TRUE, NoFlag, NoBody, Stores)
    ELSE IF id \notin DOMAIN events THEN Answer(500, "gone", TRUE, NoFlag, NoBody, Stores)
    ELSE Answer(200, "none", TRUE, NoFlag, w.doc,
                [ Stores EXCEPT !.events[id] = SavedOver(@, w.doc, w.dirty),
                                !.asSubmitted = Without(@, id) ])

\* DELETE /api/events/:id, from the arrival to deleteOne
DeleteEventFinds(w) ==
    LET found == FindEvent(w.req.id)
    IN
    IF ~Gate("DeleteEvent", w.req.admin) THEN
        Answer(UnauthorizedStatus, "none", FALSE, NoFlag, NoBody, Stores)
    ELSE IF ~IsObjectIdString(w.req.id) THEN Answer(400, "none", FALSE, NoFlag, NoBody, Stores)
    ELSE IF w.req.fault = "find" THEN Answer(500, "db", TRUE, NoFlag, NoBody, Stores)
    ELSE IF found = NoBody THEN Answer(404, "none", TRUE, NoFlag, NoBody, Stores)
    ELSE Await(Waiting("DeleteEvent", "delete", w.req, found, <<>>, {}), TRUE, Stores)

\* A deleteOne that takes the bookings of the event with it.
DeleteEventCascades(w) ==
    IF w.req.fault = "save" THEN Answer(500, "db", TRUE, NoFlag, NoBody, Stores)
    ELSE Answer(200, "none", TRUE, NoFlag, NoBody,
                [ Stores EXCEPT
                    !.events = Without(@, w.doc._id),
                    !.asSubmitted = Without(@, w.doc._id),
                    !.bookings = [ i \in { j \in DOMAIN @ : @[j].eventId # w.doc._id } |-> @[i] ] ])

\* DELETE /api/events/:id: event.deleteOne() resolves (also when the
\* document is no longer stored) or rejects
DeleteEventDeletes(w) ==
    IF w.req.fault = "save" THEN Answer(500, "db", TRUE, NoFlag, NoBody, Stores)
    ELSE Answer(200, "none", TRUE, NoFlag, NoBody,
                [ Stores EXCEPT !.events = Without(@, w.doc._id),
                                !.asSubmitted = Without(@, w.doc._id) ])

-----------------------------------------------------------------------------
(* Steps *)

Served(route, out) == [ route |-> route, status |-> out.status, cause |-> out.cause ]

\* The requests in flight that wait on `pc` in the handler of `route`.
WaitingOn(route, pc) == { w \in BagToSet(inFlight) : w.route = route /\ w.pc = pc }

\* The uploads the requests in flight have still to make, the documents
\* they have still to construct and the mails they have still to send.
RECURSIVE UploadsDueIn(_)
UploadsDueIn(ws) ==
    IF ws = {} THEN 0
    ELSE LET w == CHOOSE x \in ws : TRUE
             due == IF w.pc = "upload"
                    THEN Len(EventFiles(w.req.nImage, w.req.nLogos)) - Len(w.urls) ELSE 0
         IN inFlight[w] * due + UploadsDueIn(ws \ {w})

RECURSIVE EventsDueIn(_)
EventsDueIn(ws) ==
    IF ws = {} THEN 0
    ELSE LET w == CHOOSE x \in ws : TRUE
         IN (IF w.route = "AddEvent" /\ w.pc = "upload" THEN inFlight[w] ELSE 0)
              + EventsDueIn(ws \ {w})

RECURSIVE MailsDueIn(_)
MailsDueIn(ws) ==
    IF ws = {} THEN 0
    ELSE LET w == CHOOSE x \in ws : TRUE
         IN (IF w.pc \in {"qr", "mail"} THEN inFlight[w] ELSE 0) + MailsDueIn(ws \ {w})

\* A run has room for what the step goes on to do: another request in
\* flight, the uploads it starts, the document it constructs, the mail it
\* sends.  A step that answers needs no room.
InBounds(w, out) ==
    /\ out.next # Done => BagCardinality(inFlight) - (IF w.pc = "start" THEN 0 ELSE 1) < MaxInFlight
    /\ (w.pc = "start" /\ out.next # Done /\ out.next.route \in {"AddEvent", "PutEvent"}) =>
          /\ Cardinality(media) + UploadsDueIn(BagToSet(inFlight))
               + Len(EventFiles(w.req.nImage, w.req.nLogos)) <= MaxUploads
          /\ w.route = "AddEvent" =>
               eventsMade + EventsDueIn(BagToSet(inFlight)) < MaxEvents
    /\ (w.pc = "start" /\ out.next # Done /\ out.next.route = "CreateBooking") =>
          bookingsMade < MaxBookings
    /\ (w.pc = "start" /\ out.next # Done /\ out.next.pc = "qr") =>
          Len(outbox) + MailsDueIn(BagToSet(inFlight)) < MaxMails

\* A step of the request w (w.pc = "start": the request arrives) with the
\* outcome `out`.
Step(w, out) ==
    /\ events' = out.st.events
    /\ eventsMade' = out.st.eventsMade
    /\ bookings' = out.st.bookings
    /\ bookingsMade' = out.st.bookingsMade
    /\ media' = out.st.media
    /\ outbox' = out.st.outbox
    /\ asSubmitted' = out.st.asSubmitted
    /\ statusSet' = out.st.statusSet
    /\ inFlight' = ((IF w.pc = "start" THEN inFlight ELSE inFlight (-) SetToBag({w}))
                    (+) (IF out.next = Done THEN EmptyBag ELSE SetToBag({out.next})))
    /\ last' = IF out.status = 0 THEN last ELSE Served(w.route, out)

-----------------------------------------------------------------------------
(* Actions of the event routes *)

AddEvent(req) == Step(Arrived("AddEvent", req), AddEventUploads(Arrived("AddEvent", req)))

AddEventUpload(w) == Step(w, AddEventUploads(w))

AddEventSave(w) == Step(w, AddEventSaves(w))

ListEvents(req) == Step(Arrived("ListEvents", req), HandleListEvents(Arrived("ListEvents", req)))

GetEvent(req) == Step(Arrived("GetEvent", req), HandleGetEvent(Arrived("GetEvent", req)))

PutEvent(req) == Step(Arrived("PutEvent", req), PutEventFinds(Arrived("PutEvent", req)))

PutEventUpload(w) == Step(w, PutEventUploads(w))

PutEventSave(w) == Step(w, PutEventSaves(w))

DeleteEvent(req) == Step(Arrived("DeleteEvent", req), DeleteEventFinds(Arrived("DeleteEvent", req)))

DeleteEventDelete(w) == Step(w, DeleteEventDeletes(w))

EventNext ==
    \/ \E req \in AddRequests : AddEvent(req)
    \/ \E w \in WaitingOn("AddEvent", "upload") : AddEventUpload(w)
    \/ \E w \in WaitingOn("AddEvent", "save") : AddEventSave(w)
    \/ \E req \in ListRequests : ListEvents(req)
    \/ \E req \in GetRequests : GetEvent(req)
    \/ \E req \in PutRequests : PutEvent(req)
    \/ \E w \in WaitingOn("PutEvent", "upload") : PutEventUpload(w)
    \/ \E w \in WaitingOn("PutEvent", "save") : PutEventSave(w)
    \/ \E req \in DeleteRequests : DeleteEvent(req)
    \/ \E w \in WaitingOn("DeleteEvent", "delete") : DeleteEventDelete(w)

-----------------------------------------------------------------------------
(* Booking documents *)

\* A body value that is read as text: a tuple of characters, or NoValue when
\* the body has no such field.
NoValue == <<"<undefined>">>

\* The check left out.
FalsyNever(v) == FALSE

\* !eventId
Falsy(v) == v = NoValue \/ v = <<>>

ValidStatuses == { "Pending", "Paid", "Unpaid", "Cancelled" }

\* A check of presence only: status !== undefined
IsPresentStatus(status) == status # Undefined

\* validStatuses.includes(status)
IsValidStatus(status) == status \in ValidStatuses

\* The Booking schema: status defaults to Pending, eventId is a reference
\* (an ObjectId) and ticketNumber a number.
DefaultStatus == "Pending"

TicketBase == 100000
TicketSpan == 900000

\* Math.random() returns n / RandomDen for an n in 0..RandomDen-1.
RandomDen == TicketSpan * RandSubdiv

\* Math.round in place of Math.floor:  round(100000 + n / RandSubdiv)
TicketNumberRounded(n) == (2 * (TicketBase * RandSubdiv + n) + RandSubdiv) \div (2 * RandSubdiv)

\* Math.floor(100000 + Math.random() * 900000), Math.random() being
\* n / RandomDen:  floor(100000 + n / RandSubdiv)
TicketNumberFor(n) == (TicketBase * RandSubdiv + n) \div RandSubdiv

\* The draws of Math.random() a run takes: the least value, the greatest
\* value whose ticket number is still the least, and the greatest value.
RandomDraws == { 0, RandSubdiv - 1, RandomDen - 1 }

\* The text fields of the booking form.
Attendee ==
    [ firstName |-> "Sara", lastName |-> "Khan", contactNumber |-> "0300",
      emailAddress |-> "sara@example.com", cityName |-> "Lahore", ticketType |-> "VIP" ]

BookingFields ==
    { "firstName", "lastName", "contactNumber", "emailAddress", "cityName", "ticketType" }

\* The whole body handed to the document: new Booking({ ...req.body, ... })
NewBookingDocFromBody(id, seq, body, eventId, ticketNumber, receiptImage) ==
    [ f \in BookingFields |-> body[f] ] @@
    [ _id |-> id, eventId |-> eventId, ticketNumber |-> ticketNumber,
      receiptImage |-> receiptImage, createdAt |-> seq,
      status |-> IF "status" \in DOMAIN body THEN body.status ELSE DefaultStatus ]

\* new Booking({ firstName, ..., eventId, ticketNumber, receiptImage }) : the
\* handler passes the named fields only, whatever else the body holds; the
\* schema supplies the status.
NewBookingDoc(id, seq, body, eventId, ticketNumber, receiptImage) ==
    [ f \in BookingFields |-> body[f] ] @@
    [ _id |-> id, eventId |-> eventId, ticketNumber |-> ticketNumber,
      receiptImage |-> receiptImage, status |-> DefaultStatus, createdAt |-> seq ]

CastFailed == [ castError |-> TRUE ]

\* Booking.findById(id): rejects with a CastError for an id that is no
\* ObjectId, resolves with null (NoBody) when no booking has the id.
FindBooking(id) ==
    LET oid == CastObjectId(id)
    IN IF oid = CastError THEN CastFailed
       ELSE IF oid \in DOMAIN bookings THEN bookings[oid] ELSE NoBody

RECURSIVE DecimalValue(_)
DigitValue(c) ==
    CASE c = "0" -> 0 [] c = "1" -> 1 [] c = "2" -> 2 [] c = "3" -> 3 [] c = "4" -> 4
      [] c = "5" -> 5 [] c = "6" -> 6 [] c = "7" -> 7 [] c = "8" -> 8 [] c = "9" -> 9
DecimalValue(str) ==
    IF str = <<>> THEN 0
    ELSE 10 * DecimalValue(SubSeq(str, 1, Len(str) - 1)) + DigitValue(str[Len(str)])

NotANumber == -1

\* The cast of the :ticketNumber text to the schema's number: the value of a
\* run of decimal digits, a CastError (NotANumber) for text that is none.
CastNumber(str) ==
    IF str # <<>> /\ \A i \in 1..Len(str) : str[i] \in Digits
    THEN DecimalValue(str) ELSE NotANumber

\* Booking.findOne({ ticketNumber }): the first match in insertion order.
FindByTicket(number) ==
    LET hits == { i \in DOMAIN bookings : bookings[i].ticketNumber = number }
    IN IF hits = {} THEN NoBody
       ELSE bookings[CHOOSE i \in hits :
                        \A j \in hits : bookings[i].createdAt <= bookings[j].createdAt]

Null == [ null |-> TRUE ]

\* .populate("eventId"): the referenced event in place of its id, null when
\* no event has that id.  The query and its populate are one awaited call.
Populated(doc) ==
    [ k \in DOMAIN doc |->
        IF k # "eventId" THEN doc[k]
        ELSE IF doc.eventId \in DOMAIN events THEN events[doc.eventId] ELSE Null ]

-----------------------------------------------------------------------------
(* The mail of a booking *)

\* req.body.htmlContent as the JSON body carries it: absent, a text (the
\* pieces of it, the placeholder being a piece of its own), a number, a
\* boolean or an array.
NoHtml == [ kind |-> "undefined" ]
HtmlText(pieces) == [ kind |-> "string", text |-> pieces ]
HtmlNumber(n) == [ kind |-> "number", value |-> n ]

QrPlaceholder == "{{QR_CODE}}"

TicketHtml == HtmlText(<<"<p>Your ticket</p>", QrPlaceholder, "<p>again</p>", QrPlaceholder>>)
PlainHtml == HtmlText(<<"plain text">>)
NumberHtml == HtmlNumber(12345)

HtmlContents ==
    { NoHtml, HtmlText(<<>>), TicketHtml, PlainHtml, NumberHtml, HtmlNumber(0),
      [ kind |-> "boolean", value |-> TRUE ], [ kind |-> "boolean", value |-> FALSE ],
      [ kind |-> "array", items |-> <<"<p>Your ticket</p>">> ] }

\* !htmlContent
HtmlFalsy(h) ==
    \/ h.kind = "undefined"
    \/ h.kind = "string" /\ h.text = <<>>
    \/ h.kind = "number" /\ h.value = 0
    \/ h.kind = "boolean" /\ ~h.value

\* QRCode.toDataURL / toBuffer of the verification URL of a ticket number
QrCodeOf(ticketNumber) == "qr:/verify-ticket/" \o ToString(ticketNumber)

\* text.replace(piece, with): the first occurrence is replaced
ReplaceFirst(text, piece, with) ==
    LET at == { i \in 1..Len(text) : text[i] = piece }
        first == CHOOSE i \in at : \A j \in at : i <= j
    IN IF at = {} THEN text ELSE [ text EXCEPT ![first] = with ]

\* The mail of the first booking router: the client's HTML with the QR code
\* in place of the first placeholder.
HtmlMail(doc, html) ==
    [ to |-> doc.emailAddress,
      html |-> ReplaceFirst(html.text, QrPlaceholder, QrCodeOf(doc.ticketNumber)),
      attached |-> "" ]

\* The mail of the second booking router: the ticket rendered by the
\* handler from the booking and its populated event (booking.eventId?.f
\* renders as undefined when the event is gone), the QR code attached.
TicketMail(doc) ==
    LET of(f) == IF doc.eventId = Null THEN Undefined ELSE doc.eventId[f]
    IN [ to |-> doc.emailAddress,
         html |-> << of("title"), ToString(doc.ticketNumber), doc.firstName, doc.lastName,
                     doc.ticketType, doc.cityName, of("date"), of("eventTime"), of("address") >>,
         attached |-> QrCodeOf(doc.ticketNumber) ]

\* transporter.sendMail(mail)
Mailed(sent, mail) == Append(sent, mail)

-----------------------------------------------------------------------------
(* Requests to the booking routes, with what the collaborators do while    *)
(* each is served ("mail": the transport fails).                           *)

BookingReq(id, hasFile, eventId, body, draw, status, ticket, html, fault) ==
    [ id |-> id, hasFile |-> hasFile, eventId |-> eventId, body |-> body, draw |-> draw,
      status |-> status, ticket |-> ticket, html |-> html, fault |-> fault ]

\* A booking form that also carries a status of its own.
PaidAttendee == Attendee @@ [ status |-> "Paid" ]

CreateReq(hasFile, eventId, body, draw, fault) ==
    BookingReq(NoId, hasFile, eventId, body, draw, Undefined, <<>>, NoHtml, fault)

CreateRequests ==
    \* with or without the receipt, with or without the event id
    { CreateReq(file, ev, Attendee, 0, "none") :
        file \in BOOLEAN, ev \in { NoValue, <<>>, NthEventId(1) } }
    \cup { CreateReq(TRUE, NthEventId(1), b, n, "none") :
             b \in { Attendee, PaidAttendee }, n \in RandomDraws }
    \* an event id that is no ObjectId
    \cup { CreateReq(TRUE, Rep("a", ObjectIdLen - 1), Attendee, 0, "none") }
    \cup { CreateReq(TRUE, NthEventId(1), Attendee, 0, flt) : flt \in {"storage", "save"} }

IdReq(id, fault) ==
    BookingReq(id, FALSE, NoValue, Attendee, 0, Undefined, <<>>, TicketHtml, fault)

BookingsHandedOut == { NthBookingId(n) : n \in 1..MaxBookings }

\* The requests that name a booking by :id, each id with no fault and the
\* first booking's with each fault of `faults`.
IdRequests(faults) ==
    { IdReq(id, "none") : id \in BookingRequestIds }
    \cup { IdReq(NthBookingId(1), flt) : flt \in faults }

GetBookingRequests == IdRequests({"find"})
ListBookingsRequests == { IdReq(NoId, flt) : flt \in {"none", "find"} }
DeleteBookingRequests == IdRequests({"find", "save"})

StatusValues == ValidStatuses \cup { "Archived", "paid", Undefined }

UpdateStatusRequests ==
    { [ r EXCEPT !.status = st ] :
        r \in { IdReq(id, "none") : id \in BookingsHandedOut }, st \in StatusValues }
    \cup { [ r EXCEPT !.status = st ] :
             r \in { IdReq(id, "none") : id \in BookingRequestIds }, st \in {"Paid", "Archived"} }
    \cup { [ IdReq(NthBookingId(1), "find") EXCEPT !.status = "Paid" ] }

TicketTexts ==
    { <<"1", "0", "0", "0", "0", "0">>, <<"9", "9", "9", "9", "9", "9">>,
      <<"0", "1", "0", "0", "0", "0", "0">>,    \* the least number, written with a leading 0
      <<"1", "2", "3", "4", "5", "6">>,         \* a number no draw of the run yields
      <<"a", "b", "c">> }                       \* no number

VerifyRequests ==
    { [ IdReq(NoId, "none") EXCEPT !.ticket = t ] : t \in TicketTexts }
    \cup { [ IdReq(NoId, "find") EXCEPT !.ticket = <<"1", "0", "0", "0", "0", "0">> ] }

\* The requests to the send-email route: each id and each fault with a
\* template, the first booking's id and a malformed one with each other
\* htmlContent.
SendEmailRequests ==
    IdRequests({"find", "mail"})
    \cup { [ IdReq(id, "none") EXCEPT !.html = h ] :
             id \in { NthBookingId(1), Rep("1", ObjectIdLen + 1) },
             h \in HtmlContents }

-----------------------------------------------------------------------------
(* Booking route handlers, step by step *)

\* POST /api/booking/create, from the arrival to the save: the upload of the
\* receipt resolves or rejects, the ticket number is drawn, the document
\* constructed
CreateBookingUploads(w) ==
    LET id == NextBookingId(bookingsMade)
        doc == NewBookingDoc(id, bookingsMade + 1, w.req.body, CastObjectId(w.req.eventId),
                             TicketNumberFor(w.req.draw), UploadedUrl(media, 1))
    IN
    IF ~w.req.hasFile THEN Answer(400, "none", FALSE, NoFlag, NoBody, Stores)
    ELSE IF Falsy(w.req.eventId) THEN Answer(400, "none", FALSE, NoFlag, NoBody, Stores)
    ELSE IF w.req.fault = "storage" THEN Answer(500, "storage", FALSE, NoFlag, NoBody, Stores)
    ELSE Await(Waiting("CreateBooking", "save", w.req, doc, <<doc.receiptImage>>, {}), FALSE,
               [ Stores EXCEPT !.media = StoreAfter(media, 1), !.bookingsMade = @ + 1 ])

\* POST /api/booking/create: newBooking.save() resolves, or rejects: the
\* schema cannot cast the eventId (a validation error), or the database fails
CreateBookingSaves(w) ==
    IF w.doc.eventId = CastError THEN Answer(500, "none", FALSE, NoFlag, NoBody, Stores)
    ELSE IF w.req.fault = "save" THEN Answer(500, "db", TRUE, NoFlag, NoBody, Stores)
    ELSE Answer(201, "none", TRUE, NoFlag, w.doc,
                [ Stores EXCEPT !.bookings = (w.doc._id :> w.doc) @@ @ ])

\* GET /api/booking
HandleListBookings(w) ==
    IF w.req.fault = "find" THEN Answer(500, "db", TRUE, NoFlag, NoBody, Stores)
    ELSE Answer(200, "none", TRUE, NoFlag,
                [ list |-> NewestFirst({ Populated(bookings[i]) : i \in DOMAIN bookings }) ],
                Stores)

\* GET /api/booking/:id
HandleGetBooking(w) ==
    LET found == FindBooking(w.req.id)
    IN
    IF found = CastFailed THEN Answer(500, "none", TRUE, NoFlag, NoBody, Stores)
    ELSE IF w.req.fault = "find" THEN Answer(500, "db", TRUE, NoFlag, NoBody, Stores)
    ELSE IF found = NoBody THEN Answer(404, "none", TRUE, NoFlag, NoBody, Stores)
    ELSE Answer(200, "none", TRUE, NoFlag, Populated(found), Stores)

\* DELETE /api/booking/:id, from the arrival to deleteOne
DeleteBookingFinds(w) ==
    LET found == FindBooking(w.req.id)
    IN
    IF found = CastFailed THEN Answer(500, "none", TRUE, NoFlag, NoBody, Stores)
    ELSE IF w.req.fault = "find" THEN Answer(500, "db", TRUE, NoFlag, NoBody, Stores)
    ELSE IF found = NoBody THEN Answer(404, "none", TRUE, NoFlag, NoBody, Stores)
    ELSE Await(Waiting("DeleteBooking", "delete", w.req, found, <<>>, {}), TRUE, Stores)

\* DELETE /api/booking/:id: booking.deleteOne() resolves (also when the
\* document is no longer stored) or rejects
DeleteBookingDeletes(w) ==
    IF w.req.fault = "save" THEN Answer(500, "db", TRUE, NoFlag, NoBody, Stores)
    ELSE Answer(200, "none", TRUE, NoFlag, NoBody,
                [ Stores EXCEPT !.bookings = Without(@, w.doc._id) ])

\* PUT /api/booking/update-status/:id : findByIdAndUpdate is one call
HandleUpdateStatus(w) ==
    LET found == FindBooking(w.req.id)
        updated == [ found EXCEPT !.status = w.req.status ]
    IN
    IF ~IsValidStatus(w.req.status) THEN Answer(400, "none", FALSE, NoFlag, NoBody, Stores)
    ELSE IF found = CastFailed THEN Answer(500, "none", TRUE, NoFlag, NoBody, Stores)
    ELSE IF w.req.fault = "find" THEN Answer(500, "db", TRUE, NoFlag, NoBody, Stores)
    ELSE IF found = NoBody THEN Answer(404, "none", TRUE, NoFlag, NoBody, Stores)
    ELSE Answer(200, "none", TRUE, NoFlag, updated,
                [ Stores EXCEPT !.bookings[found._id] = updated,
                                !.statusSet = @ \cup { found._id } ])

\* GET /api/booking/verify/:ticketNumber
HandleVerify(w) ==
    LET number == CastNumber(w.req.ticket)
        found == FindByTicket(number)
    IN
    IF number = NotANumber THEN Answer(500, "none", TRUE, NoFlag, NoBody, Stores)
    ELSE IF w.req.fault = "find" THEN Answer(500, "db", TRUE, NoFlag, NoBody, Stores)
    ELSE IF found = NoBody THEN Answer(404, "none", TRUE, "false", NoBody, Stores)
    ELSE Answer(200, "none", TRUE, "true", Populated(found), Stores)

\* The lookup both versions of the send-email handler start with; `then`
\* is what the handler does with the booking it found.
LookUp(w, then) ==
    LET found == FindBooking(w.req.id)
    IN
    IF found = CastFailed THEN Answer(500, "none", TRUE, NoFlag, NoBody, Stores)
    ELSE IF w.req.fault = "find" THEN Answer(500, "db", TRUE, NoFlag, NoBody, Stores)
    ELSE IF found = NoBody THEN Answer(404, "none", TRUE, NoFlag, NoBody, Stores)
    ELSE then

\* POST /api/booking/send-email/:id of the first router, from the arrival to
\* QRCode.toDataURL: the check of htmlContent, then the lookup
SendEmailHtmlFinds(w) ==
    IF HtmlFalsy(w.req.html) THEN Answer(400, "none", FALSE, NoFlag, NoBody, Stores)
    ELSE LookUp(w, Await(Waiting("SendEmailHtml", "qr", w.req, FindBooking(w.req.id), <<>>, {}),
                         TRUE, Stores))

\* POST /api/booking/send-email/:id of the first router: QRCode.toDataURL
\* resolves, then htmlContent.replace, which throws on a value that is no
\* string
SendEmailHtmlQrs(w) ==
    IF w.req.html.kind # "string" THEN Answer(500, "none", FALSE, NoFlag, NoBody, Stores)
    ELSE Await(Waiting("SendEmailHtml", "mail", w.req, w.doc, <<>>, {}), FALSE, Stores)

\* POST /api/booking/send-email/:id of the first router: sendMail resolves
\* or rejects
SendEmailHtmlMails(w) ==
    IF w.req.fault = "mail" THEN Answer(500, "mail", FALSE, NoFlag, NoBody, Stores)
    ELSE Answer(200, "none", FALSE, NoFlag, NoBody,
                [ Stores EXCEPT !.outbox = Mailed(@, HtmlMail(w.doc, w.req.html)) ])

\* POST /api/booking/send-email/:id of the second router, from the arrival
\* to QRCode.toBuffer
SendEmailFinds(w) ==
    LookUp(w, Await(Waiting("SendEmail", "qr", w.req, Populated(FindBooking(w.req.id)),
                            <<>>, {}),
                    TRUE, Stores))

\* POST /api/booking/send-email/:id of the second router: QRCode.toBuffer
\* resolves, the ticket is rendered
SendEmailQrs(w) == Await(Waiting("SendEmail", "mail", w.req, w.doc, <<>>, {}), FALSE, Stores)

\* POST /api/booking/send-email/:id of the second router: sendMail resolves
\* or rejects
SendEmailMails(w) ==
    IF w.req.fault = "mail" THEN Answer(500, "mail", FALSE, NoFlag, NoBody, Stores)
    ELSE Answer(200, "none", FALSE, NoFlag, NoBody,
                [ Stores EXCEPT !.outbox = Mailed(@, TicketMail(w.doc)) ])

-----------------------------------------------------------------------------
(* Actions of the booking routes *)

CreateBooking(req) ==
    Step(Arrived("CreateBooking", req), CreateBookingUploads(Arrived("CreateBooking", req)))

CreateBookingSave(w) == Step(w, CreateBookingSaves(w))

ListBookings(req) ==
    Step(Arrived("ListBookings", req), HandleListBookings(Arrived("ListBookings", req)))

GetBooking(req) == Step(Arrived("GetBooking", req), HandleGetBooking(Arrived("GetBooking", req)))

DeleteBooking(req) ==
    Step(Arrived("DeleteBooking", req), DeleteBookingFinds(Arrived("DeleteBooking", req)))

DeleteBookingDelete(w) == Step(w, DeleteBookingDeletes(w))

UpdateStatus(req) ==
    Step(Arrived("UpdateStatus", req), HandleUpdateStatus(Arrived("UpdateStatus", req)))

Verify(req) == Step(Arrived("Verify", req), HandleVerify(Arrived("Verify", req)))

SendEmailHtml(req) ==
    Step(Arrived("SendEmailHtml", req), SendEmailHtmlFinds(Arrived("SendEmailHtml", req)))

SendEmailHtmlQr(w) == Step(w, SendEmailHtmlQrs(w))

SendEmailHtmlMail(w) == Step(w, SendEmailHtmlMails(w))

SendEmail(req) ==
    Step(Arrived("SendEmail", req), SendEmailFinds(Arrived("SendEmail", req)))

SendEmailQr(w) == Step(w, SendEmailQrs(w))

SendEmailMail(w) == Step(w, SendEmailMails(w))

BookingNext ==
    \/ \E req \in CreateRequests : CreateBooking(req)
    \/ \E w \in WaitingOn("CreateBooking", "save") : CreateBookingSave(w)
    \/ \E req \in ListBookingsRequests : ListBookings(req)
    \/ \E req \in GetBookingRequests : GetBooking(req)
    \/ \E req \in DeleteBookingRequests : DeleteBooking(req)
    \/ \E w \in WaitingOn("DeleteBooking", "delete") : DeleteBookingDelete(w)
    \/ \E req \in UpdateStatusRequests : UpdateStatus(req)
    \/ \E req \in VerifyRequests : Verify(req)
    \/ \E req \in SendEmailRequests : SendEmailHtml(req)
    \/ \E w \in WaitingOn("SendEmailHtml", "qr") : SendEmailHtmlQr(w)
    \/ \E w \in WaitingOn("SendEmailHtml", "mail") : SendEmailHtmlMail(w)
    \/ \E req \in SendEmailRequests : SendEmail(req)
    \/ \E w \in WaitingOn("SendEmail", "qr") : SendEmailQr(w)
    \/ \E w \in WaitingOn("SendEmail", "mail") : SendEmailMail(w)

Init ==
    /\ events = [ i \in {} |-> NoBody ]
    /\ eventsMade = 0
    /\ bookings = [ i \in {} |-> NoBody ]
    /\ bookingsMade = 0
    /\ media = {}
    /\ outbox = <<>>
    /\ asSubmitted = [ i \in {} |-> NoFields ]
    /\ statusSet = {}
    /\ inFlight = EmptyBag
    /\ last = [ route |-> "none", status |-> 0, cause |-> "none" ]

Next == EventNext \/ BookingNext

\* Every request of every route, in any number.
Spec == Init /\ [][Next]_vars


-----------------------------------------------------------------------------
(* Runs: the same steps over the requests each run sends, a request that   *)
(* goes on to await being admitted while the run has room for it.  A run   *)
(* of the event routes, a run of the booking routes, and a run of records  *)
(* made and unmade on both sides.                                           *)

\* Event run: the whole form without files and with all of them, one whose
\* save fails, one of a sender who is no admin.
EventRunAdds ==
    { r \in AddRequests :
        \/ r.admin /\ r.multipart /\ r.fault = "none"
        \/ r.admin /\ r.fault = "save" /\ r.nLogos = 0
        \/ ~r.admin }

\* A stored id by a sender without authentication, the same id in upper
\* case, an id that is too short.
EventRunGets ==
    { r \in GetRequests :
        /\ ~r.admin
        /\ r.id \in { NthEventId(1), InUpperCase(NthEventId(1)), Rep("a", ObjectIdLen - 1) } }

\* The title and the prices of each event, the title of the first with new
\* files, an update whose upload fails, one of a sender who is no admin.
EventRunPuts ==
    { r \in PutRequests :
        \/ /\ r.admin /\ r.multipart /\ r.fault = "none" /\ r.id \in HandedOut
           /\ r.body \in { Retitle, Reprice }
        \/ r.admin /\ r.fault = "storage" /\ r.stored = 0
        \/ ~r.admin }

EventRunDeletes == { r \in DeleteRequests : r.fault = "none" /\ r.id = NthEventId(1) }

EventRun ==
    \/ \E req \in EventRunAdds :
          InBounds(Arrived("AddEvent", req), AddEventUploads(Arrived("AddEvent", req))) /\ AddEvent(req)
    \/ \E w \in WaitingOn("AddEvent", "upload") : AddEventUpload(w)
    \/ \E w \in WaitingOn("AddEvent", "save") : AddEventSave(w)
    \/ \E req \in { r \in ListRequests : ~r.admin } : ListEvents(req)
    \/ \E req \in EventRunGets : GetEvent(req)
    \/ \E req \in EventRunPuts :
          InBounds(Arrived("PutEvent", req), PutEventFinds(Arrived("PutEvent", req))) /\ PutEvent(req)
    \/ \E w \in WaitingOn("PutEvent", "upload") : PutEventUpload(w)
    \/ \E w \in WaitingOn("PutEvent", "save") : PutEventSave(w)
    \/ \E req \in EventRunDeletes :
          InBounds(Arrived("DeleteEvent", req), DeleteEventFinds(Arrived("DeleteEvent", req))) /\ DeleteEvent(req)
    \/ \E w \in WaitingOn("DeleteEvent", "delete") : DeleteEventDelete(w)

EventSpec == Init /\ [][EventRun]_vars

\* Booking run: bookings with the least and the greatest draw, one whose form
\* carries a status, one whose event id is no ObjectId, one whose save fails,
\* one without receipt and one without event id.
BookingRunCreates ==
    { r \in CreateRequests :
        \/ /\ r.hasFile /\ r.eventId = NthEventId(1) /\ r.fault \in { "none", "save" }
           /\ r.draw \in { 0, RandomDen - 1 } /\ (r.draw = 0 \/ (r.body = Attendee /\ r.fault = "none"))
        \/ r.hasFile /\ r.eventId = Rep("a", ObjectIdLen - 1)
        \/ ~r.hasFile /\ r.eventId = NthEventId(1)
        \/ r.hasFile /\ r.eventId = NoValue }

\* The first booking's id and an id that is too long.
BookingRunIds(all) ==
    { r \in all : r.fault = "none" /\ r.html = TicketHtml
                  /\ r.id \in { NthBookingId(1), Rep("1", ObjectIdLen + 1) } }

BookingRunStatuses ==
    { r \in BookingRunIds(UpdateStatusRequests) :
        r.status = "Paid" \/ (r.id = NthBookingId(1) /\ r.status \in { "Archived", Undefined }) }

BookingRunVerifies ==
    { r \in VerifyRequests :
        r.fault = "none" /\ r.ticket \in { <<"1", "0", "0", "0", "0", "0">>, <<"a", "b", "c">> } }

BookingRunHtmls ==
    { r \in SendEmailRequests :
        r.fault = "none" /\ r.id = NthBookingId(1) /\ r.html \in { TicketHtml, NumberHtml, NoHtml } }

BookingRunMails ==
    BookingRunIds(SendEmailRequests) \cup { r \in SendEmailRequests : r.fault = "mail" }

BookingRun ==
    \/ \E req \in BookingRunCreates :
          InBounds(Arrived("CreateBooking", req), CreateBookingUploads(Arrived("CreateBooking", req))) /\ CreateBooking(req)
    \/ \E w \in WaitingOn("CreateBooking", "save") : CreateBookingSave(w)
    \/ \E req \in { r \in ListBookingsRequests : r.fault = "none" } : ListBookings(req)
    \/ \E req \in BookingRunIds(GetBookingRequests) : GetBooking(req)
    \/ \E req \in BookingRunIds(DeleteBookingRequests) :
          InBounds(Arrived("DeleteBooking", req), DeleteBookingFinds(Arrived("DeleteBooking", req))) /\ DeleteBooking(req)
    \/ \E w \in WaitingOn("DeleteBooking", "delete") : DeleteBookingDelete(w)
    \/ \E req \in BookingRunStatuses : UpdateStatus(req)
    \/ \E req \in BookingRunVerifies : Verify(req)
    \/ \E req \in BookingRunHtmls :
          InBounds(Arrived("SendEmailHtml", req), SendEmailHtmlFinds(Arrived("SendEmailHtml", req))) /\ SendEmailHtml(req)
    \/ \E w \in WaitingOn("SendEmailHtml", "qr") : SendEmailHtmlQr(w)
    \/ \E w \in WaitingOn("SendEmailHtml", "mail") : SendEmailHtmlMail(w)
    \/ \E req \in BookingRunMails :
          InBounds(Arrived("SendEmail", req), SendEmailFinds(Arrived("SendEmail", req))) /\ SendEmail(req)
    \/ \E w \in WaitingOn("SendEmail", "qr") : SendEmailQr(w)
    \/ \E w \in WaitingOn("SendEmail", "mail") : SendEmailMail(w)

BookingSpec == Init /\ [][BookingRun]_vars

\* Record run: events are created (one with all its files and a save that
\* fails), retitled and deleted while bookings for the first event are
\* created (one with a save that fails, one with an event id that is no
\* ObjectId), marked paid, verified and deleted.
RecordRunAdds ==
    { r \in AddRequests :
        /\ r.admin /\ r.multipart
        /\ \/ r.fault = "none" /\ r.nImage = 0
           \/ r.fault = "save" /\ r.nLogos > 0 }
RecordRunPuts ==
    { r \in EventRunPuts :
        r.admin /\ r.fault = "none" /\ r.nImage = 0 /\ r.id = NthEventId(1) /\ r.body = Retitle }
RecordRunCreates ==
    { r \in BookingRunCreates : r.hasFile /\ r.eventId # NoValue /\ r.body = Attendee }
RecordRunBookingDeletes ==
    { r \in DeleteBookingRequests : r.fault = "none" /\ r.id \in BookingsHandedOut }
RecordRunVerifies ==
    { r \in VerifyRequests :
        r.fault = "none" /\ r.ticket \in { <<"1", "0", "0", "0", "0", "0">>,
                                           <<"9", "9", "9", "9", "9", "9">> } }

RecordRun ==
    \/ \E req \in RecordRunAdds :
          InBounds(Arrived("AddEvent", req), AddEventUploads(Arrived("AddEvent", req))) /\ AddEvent(req)
    \/ \E w \in WaitingOn("AddEvent", "upload") : AddEventUpload(w)
    \/ \E w \in WaitingOn("AddEvent", "save") : AddEventSave(w)
    \/ \E req \in RecordRunPuts :
          InBounds(Arrived("PutEvent", req), PutEventFinds(Arrived("PutEvent", req))) /\ PutEvent(req)
    \/ \E w \in WaitingOn("PutEvent", "save") : PutEventSave(w)
    \/ \E req \in { r \in EventRunDeletes : r.admin } :
          InBounds(Arrived("DeleteEvent", req), DeleteEventFinds(Arrived("DeleteEvent", req))) /\ DeleteEvent(req)
    \/ \E w \in WaitingOn("DeleteEvent", "delete") : DeleteEventDelete(w)
    \/ \E req \in RecordRunCreates :
          InBounds(Arrived("CreateBooking", req), CreateBookingUploads(Arrived("CreateBooking", req))) /\ CreateBooking(req)
    \/ \E w \in WaitingOn("CreateBooking", "save") : CreateBookingSave(w)
    \/ \E req \in RecordRunBookingDeletes :
          InBounds(Arrived("DeleteBooking", req), DeleteBookingFinds(Arrived("DeleteBooking", req))) /\ DeleteBooking(req)
    \/ \E w \in WaitingOn("DeleteBooking", "delete") : DeleteBookingDelete(w)
    \/ \E req \in { r \in BookingRunStatuses : r.id = NthBookingId(1) /\ r.status = "Paid" } : UpdateStatus(req)
    \/ \E req \in RecordRunVerifies : Verify(req)

RecordSpec == Init /\ [][RecordRun]_vars

-----------------------------------------------------------------------------
(* Properties of the booking routes *)

\* The id a well-formed :id text denotes.
Denoted(id) == [ k \in 1..Len(id) |-> LowerHex(id[k]) ]

WellFormed(id) ==
    /\ Len(id) = 24
    /\ \A k \in 1..Len(id) :
         id[k] \in { "0", "1", "2", "3", "4", "5", "6", "7", "8", "9",
                     "a", "b", "c", "d", "e", "f", "A", "B", "C", "D", "E", "F" }

\* The stored bookings whose ticket number the text denotes: none when the
\* text is not a number.
Holders(text) ==
    { i \in DOMAIN bookings :
        /\ text # <<>>
        /\ \A k \in 1..Len(text) : text[k] \in Digits
        /\ bookings[i].ticketNumber = DecimalValue(text) }

\* C1: in every reachable state of the booking store, the verify route
\* answers 404 with valid:false when no stored booking has the requested
\* ticket number, and valid:true with a stored booking of that ticket number
\* when there is one (the database being up).
C1_VerifyAsClaimed ==
    \A req \in VerifyRequests :
        LET out == HandleVerify(Arrived("Verify", req))
        IN req.fault = "none" =>
             IF Holders(req.ticket) = {}
             THEN out.status = 404 /\ out.valid = "false"
             ELSE /\ out.valid = "true"
                  /\ \E i \in Holders(req.ticket) : out.doc._id = i

\* C2: update-status with a status outside {Pending, Paid, Unpaid,
\* Cancelled}, a missing one included, answers 400 at once and leaves every
\* stored booking as it was.
C2_InvalidStatusRejected ==
    \A req \in UpdateStatusRequests :
        LET out == HandleUpdateStatus(Arrived("UpdateStatus", req))
        IN req.status \notin { "Pending", "Paid", "Unpaid", "Cancelled" } =>
             /\ out.status = 400
             /\ out.next = Done
             /\ out.st.bookings = bookings

\* An invalid status was refused while the booking it addressed was stored.
C2_Witness ==
    /\ last.route = "UpdateStatus" /\ last.status = 400
    /\ NthBookingId(1) \in DOMAIN bookings

\* C3: a create request without the receipt image, or without the event
\* identifier, answers 400 at once, uploads nothing and stores no booking.
C3_IncompleteCreateRejected ==
    \A req \in CreateRequests :
        LET out == CreateBookingUploads(Arrived("CreateBooking", req))
        IN (~req.hasFile \/ req.eventId \in { NoValue, <<>> }) =>
             /\ out.status = 400
             /\ out.next = Done
             /\ out.st.media = media
             /\ out.st.bookings = bookings

\* A create request was refused after an earlier one had gone through.
C3_Witness ==
    /\ last.route = "CreateBooking" /\ last.status = 400
    /\ bookings # << >> /\ media # {}

\* C4: every booking that is stored, or is about to be saved, carries an
\* integer ticket number from 100000 to 999999, whatever Math.random()
\* returned.
C4_TicketNumberRange ==
    \A doc \in { bookings[i] : i \in DOMAIN bookings }
               \cup { w.doc : w \in WaitingOn("CreateBooking", "save") } :
        /\ doc.ticketNumber \in Int
        /\ 100000 <= doc.ticketNumber
        /\ doc.ticketNumber <= 999999

\* Bookings are stored with the least and with the greatest ticket number.
C4_Witness ==
    /\ \E i \in DOMAIN bookings : bookings[i].ticketNumber = 999999
    /\ \E i \in DOMAIN bookings : bookings[i].ticketNumber = 100000

\* C8: every stored booking has a status among Pending, Paid, Unpaid and
\* Cancelled, and it is Pending as long as no update-status request
\* addressed to the booking has succeeded.
C8_StatusLifecycle ==
    \A i \in DOMAIN bookings :
        /\ bookings[i].status \in { "Pending", "Paid", "Unpaid", "Cancelled" }
        /\ i \notin statusSet => bookings[i].status = "Pending"

\* One booking has had its status set, another is as it was created, and a
\* mail has gone out.
C8_Witness ==
    /\ \E i \in DOMAIN bookings : i \in statusSet /\ bookings[i].status = "Paid"
    /\ \E i \in DOMAIN bookings : i \notin statusSet
    /\ outbox # <<>>

-----------------------------------------------------------------------------
(* Properties of the event routes *)

\* C5: GET /api/events/:id answers 400 without a database call when the id
\* is not exactly 24 hexadecimal characters; for a well-formed id it answers
\* 404 when no event has the id and returns the event when one has (the
\* database being up).
C5_GetEventById ==
    \A req \in GetRequests :
        LET out == HandleGetEvent(Arrived("GetEvent", req))
        IN IF ~WellFormed(req.id)
           THEN out.status = 400 /\ ~out.queried
           ELSE req.fault = "none" =>
                  IF Denoted(req.id) \in DOMAIN events
                  THEN out.status = 200 /\ out.doc = events[Denoted(req.id)]
                  ELSE out.status = 404

\* A malformed id was refused while events were stored.
C5_Witness ==
    /\ last.route = "GetEvent" /\ last.status = 400
    /\ DOMAIN events = { NthEventId(1), NthEventId(2) }

\* The steps of an update before its save leave the stored events alone.
PutWritesAtSaveOnly ==
    /\ \A req \in PutRequests : PutEventFinds(Arrived("PutEvent", req)).st.events = events
    /\ \A w \in WaitingOn("PutEvent", "upload") : PutEventUploads(w).st.events = events

\* C6: a successful PUT /api/events/:id leaves every field the body does
\* not supply at the value it had before the save, leaves imageUrl and
\* sponsorLogos as they were unless files for them are attached, and leaves
\* all other events as they were, whatever was served since the request
\* read the event.
C6_PartialUpdateFrame ==
    /\ PutWritesAtSaveOnly
    /\ \A w \in WaitingOn("PutEvent", "save") :
          LET out == PutEventSaves(w)
              id == Denoted(w.req.id)
          IN out.status = 200 =>
               /\ DOMAIN out.st.events = DOMAIN events
               /\ \A f \in EventFields \ DOMAIN w.req.body :
                     out.st.events[id][f] = events[id][f]
               /\ w.req.nImage = 0 => out.st.events[id].imageUrl = events[id].imageUrl
               /\ w.req.nLogos = 0 => out.st.events[id].sponsorLogos = events[id].sponsorLogos
               /\ \A other \in DOMAIN events \ {id} : out.st.events[other] = events[other]

\* The title alone of an event created in full was replaced, a second event
\* being stored.
C6_Witness ==
    /\ last.route = "PutEvent" /\ last.status = 200
    /\ \E i \in DOMAIN events :
         /\ events[i].title = "Gala" /\ events[i].description = "Live"
         /\ \E j \in DOMAIN events : j # i

\* C7: an event that was created and has not been updated or deleted since
\* is returned by GET /api/events/:id, on the id the create returned, with
\* the field values that were submitted.
C7_CreateThenGet ==
    \A id \in DOMAIN asSubmitted :
        \A req \in GetRequests :
            LET out == HandleGetEvent(Arrived("GetEvent", req))
            IN (req.fault = "none" /\ Denoted(req.id) = id) =>
                 /\ out.status = 200
                 /\ out.doc._id = id
                 /\ \A f \in DOMAIN asSubmitted[id] : out.doc[f] = asSubmitted[id][f]

\* An event created in full was fetched, untouched since its creation.
C7_Witness ==
    /\ last.route = "GetEvent" /\ last.status = 200
    /\ \E id \in DOMAIN asSubmitted : asSubmitted[id] = Concert

\* C9: a create, update or delete request that fails the admin check is
\* answered at once and leaves the stored events and the media store as
\* they are, no request in flight on these routes is one that fails the
\* check, and the two read routes answer a request that carries no
\* authentication.
C9_AdminOnlyWrites ==
    /\ \A req \in AddRequests : ~req.admin =>
          LET out == AddEventUploads(Arrived("AddEvent", req))
          IN out.next = Done /\ out.st.events = events /\ out.st.media = media
    /\ \A req \in PutRequests : ~req.admin =>
          LET out == PutEventFinds(Arrived("PutEvent", req))
          IN out.next = Done /\ out.st.events = events /\ out.st.media = media
    /\ \A req \in DeleteRequests : ~req.admin =>
          LET out == DeleteEventFinds(Arrived("DeleteEvent", req))
          IN out.next = Done /\ out.st.events = events /\ out.st.media = media
    /\ \A w \in BagToSet(inFlight) :
          w.route \in { "AddEvent", "PutEvent", "DeleteEvent" } => w.req.admin
    /\ \A req \in ListRequests : ~req.admin =>
          HandleListEvents(Arrived("ListEvents", req)).status \in { 200, 500 }
    /\ \A req \in GetRequests : ~req.admin =>
          HandleGetEvent(Arrived("GetEvent", req)).status \in { 200, 400, 404, 500 }

\* A delete that was not an admin's was turned away while its event was
\* stored.
C9_Witness ==
    /\ last.route = "DeleteEvent" /\ last.status = 401
    /\ NthEventId(1) \in DOMAIN events

-----------------------------------------------------------------------------
(* Error taxonomy of the routes that take a record id *)

\* What C10 asks of the answer `out` to a request for `id` under `fault`,
\* `known` telling whether the record exists.
Triaged(id, fault, known, out) ==
    /\ ~WellFormed(id) => out.status = 400
    /\ (WellFormed(id) /\ fault = "none" /\ ~known) => out.status = 404
    /\ out.status = 500 => out.cause \in { "storage", "db", "mail" }

\* What C10 asks of the answer of a request that has gone past its lookup.
FailsOnFailureOnly(out) == out.status = 500 => out.cause \in { "storage", "db", "mail" }

EventKnown(id) == WellFormed(id) /\ Denoted(id) \in DOMAIN events
BookingKnown(id) == WellFormed(id) /\ Denoted(id) \in DOMAIN bookings

\* C10 for the event routes: get, update and delete, on requests of an admin
\* with a multipart body, at the lookup and at each later call.
EventRoutesTriaged ==
    /\ \A req \in GetRequests :
          Triaged(req.id, req.fault, EventKnown(req.id), HandleGetEvent(Arrived("GetEvent", req)))
    /\ \A req \in PutRequests : (req.admin /\ req.multipart) =>
          Triaged(req.id, req.fault, EventKnown(req.id), PutEventFinds(Arrived("PutEvent", req)))
    /\ \A req \in DeleteRequests : req.admin =>
          Triaged(req.id, req.fault, EventKnown(req.id),
                  DeleteEventFinds(Arrived("DeleteEvent", req)))
    /\ \A w \in WaitingOn("PutEvent", "upload") : FailsOnFailureOnly(PutEventUploads(w))
    /\ \A w \in WaitingOn("PutEvent", "save") : FailsOnFailureOnly(PutEventSaves(w))
    /\ \A w \in WaitingOn("DeleteEvent", "delete") : FailsOnFailureOnly(DeleteEventDeletes(w))

\* C10 for the booking routes: get, delete, update-status (with a valid
\* status) and send-email (with htmlContent), at the lookup and at each later
\* call.
BookingRoutesTriaged ==
    /\ \A req \in GetBookingRequests :
          Triaged(req.id, req.fault, BookingKnown(req.id),
                  HandleGetBooking(Arrived("GetBooking", req)))
    /\ \A req \in DeleteBookingRequests :
          Triaged(req.id, req.fault, BookingKnown(req.id),
                  DeleteBookingFinds(Arrived("DeleteBooking", req)))
    /\ \A req \in UpdateStatusRequests : req.status \in ValidStatuses =>
          Triaged(req.id, req.fault, BookingKnown(req.id),
                  HandleUpdateStatus(Arrived("UpdateStatus", req)))
    /\ \A req \in SendEmailRequests :
          /\ ~HtmlFalsy(req.html) =>
                Triaged(req.id, req.fault, BookingKnown(req.id),
                        SendEmailHtmlFinds(Arrived("SendEmailHtml", req)))
          /\ Triaged(req.id, req.fault, BookingKnown(req.id),
                     SendEmailFinds(Arrived("SendEmail", req)))
    /\ \A w \in WaitingOn("DeleteBooking", "delete") : FailsOnFailureOnly(DeleteBookingDeletes(w))
    /\ \A w \in WaitingOn("SendEmailHtml", "qr") : FailsOnFailureOnly(SendEmailHtmlQrs(w))
    /\ \A w \in WaitingOn("SendEmailHtml", "mail") : FailsOnFailureOnly(SendEmailHtmlMails(w))
    /\ \A w \in WaitingOn("SendEmail", "qr") : FailsOnFailureOnly(SendEmailQrs(w))
    /\ \A w \in WaitingOn("SendEmail", "mail") : FailsOnFailureOnly(SendEmailMails(w))

\* C10: on every route that takes a record id a malformed id is answered
\* with 400, the id of a record that does not exist with 404, and 500 is
\* the answer to a storage, database or mail failure only.
C10_IdRoutesAsClaimed == EventRoutesTriaged /\ BookingRoutesTriaged

\* An update answers 500 though no collaborator failed: the event was
\* deleted between the update's lookup and its save.
PutFailsOnRace ==
    \E w \in WaitingOn("PutEvent", "save") :
        w.req.fault = "none" /\ PutEventSaves(w).status = 500

-----------------------------------------------------------------------------
(* Upload and save *)

\* A create request of each router whose uploads went through and whose
\* save then fails answers 500, adds no record and issues no further call,
\* and what it uploaded is in the media store, before and after the answer.
SaveFailureLeavesUpload ==
    /\ \A w \in WaitingOn("AddEvent", "save") :
          (w.req.fault = "save" /\ w.urls # <<>>) =>
             LET out == AddEventSaves(w)
             IN /\ out.status = 500 /\ out.next = Done
                /\ out.st.events = events
                /\ Len(w.urls) = w.req.nImage + w.req.nLogos
                /\ \A k \in 1..Len(w.urls) : w.urls[k] \in media /\ w.urls[k] \in out.st.media
                /\ \A k, l \in 1..Len(w.urls) : k # l => w.urls[k] # w.urls[l]
    /\ \A w \in WaitingOn("CreateBooking", "save") :
          (w.req.fault = "save" \/ ~WellFormed(w.req.eventId)) =>
             LET out == CreateBookingSaves(w)
             IN /\ out.status = 500 /\ out.next = Done
                /\ out.st.bookings = bookings
                /\ w.doc.receiptImage \in media /\ w.doc.receiptImage \in out.st.media

\* C11: in event create and booking create the uploads and the save are
\* separate steps: a save that fails after the uploads went through answers
\* 500 and adds no record, the uploaded objects stay in the media store, and
\* no step of any route ever removes an object from the media store.
C11_OrphanedUpload == []SaveFailureLeavesUpload /\ [][media \subseteq media']_vars

\* The only create request so far, an event with its image and a logo,
\* failed at the save: no event is stored and both objects are in the media
\* store.
C11_Witness ==
    /\ last.route = "AddEvent" /\ last.status = 500 /\ last.cause = "db"
    /\ eventsMade = 1 /\ bookingsMade = 0
    /\ DOMAIN events = {} /\ Cardinality(media) = 1 + MaxLogoFiles
    /\ inFlight = EmptyBag

\* The same for a booking: its receipt is in the media store and no booking
\* is stored.
C11_BookingWitness ==
    /\ last.route = "CreateBooking" /\ last.status = 500 /\ last.cause = "db"
    /\ bookingsMade = 1 /\ eventsMade = 0
    /\ DOMAIN bookings = {} /\ media # {}
    /\ inFlight = EmptyBag

-----------------------------------------------------------------------------
(* Tickets of stored bookings *)

\* The verify route reports valid:true, with a booking of that ticket
\* number, on the ticket number of every stored booking.
VerifiesWhileStored ==
    \A i \in DOMAIN bookings :
        \E req \in VerifyRequests :
            /\ req.fault = "none"
            /\ CastNumber(req.ticket) = bookings[i].ticketNumber
            /\ LET out == HandleVerify(Arrived("Verify", req))
               IN /\ out.status = 200 /\ out.valid = "true"
                  /\ out.doc.ticketNumber = bookings[i].ticketNumber

\* The outcome keeps every stored booking, but those of `gone`, with its
\* ticket number.
KeepsTickets(out, gone) ==
    \A i \in DOMAIN bookings \ gone :
        /\ i \in DOMAIN out.st.bookings
        /\ out.st.bookings[i].ticketNumber = bookings[i].ticketNumber

\* Of the steps of the booking routes only the deleteOne of a delete request
\* removes a booking, the one the request read, and none changes a ticket
\* number.
BookingRequestsKeepTickets ==
    /\ \A req \in CreateRequests :
          KeepsTickets(CreateBookingUploads(Arrived("CreateBooking", req)), {})
    /\ \A w \in WaitingOn("CreateBooking", "save") : KeepsTickets(CreateBookingSaves(w), {})
    /\ \A req \in ListBookingsRequests :
          KeepsTickets(HandleListBookings(Arrived("ListBookings", req)), {})
    /\ \A req \in GetBookingRequests :
          KeepsTickets(HandleGetBooking(Arrived("GetBooking", req)), {})
    /\ \A req \in UpdateStatusRequests :
          KeepsTickets(HandleUpdateStatus(Arrived("UpdateStatus", req)), {})
    /\ \A req \in VerifyRequests : KeepsTickets(HandleVerify(Arrived("Verify", req)), {})
    /\ \A req \in SendEmailRequests :
          /\ KeepsTickets(SendEmailHtmlFinds(Arrived("SendEmailHtml", req)), {})
          /\ KeepsTickets(SendEmailFinds(Arrived("SendEmail", req)), {})
    /\ \A w \in WaitingOn("SendEmailHtml", "qr") : KeepsTickets(SendEmailHtmlQrs(w), {})
    /\ \A w \in WaitingOn("SendEmailHtml", "mail") : KeepsTickets(SendEmailHtmlMails(w), {})
    /\ \A w \in WaitingOn("SendEmail", "qr") : KeepsTickets(SendEmailQrs(w), {})
    /\ \A w \in WaitingOn("SendEmail", "mail") : KeepsTickets(SendEmailMails(w), {})
    /\ \A req \in DeleteBookingRequests :
          KeepsTickets(DeleteBookingFinds(Arrived("DeleteBooking", req)), {})
    /\ \A w \in WaitingOn("DeleteBooking", "delete") :
          KeepsTickets(DeleteBookingDeletes(w), { Denoted(w.req.id) })

\* The steps of the event routes, the deletion of an event included, leave
\* the bookings as they are.
EventRequestsKeepBookings ==
    /\ \A req \in AddRequests : AddEventUploads(Arrived("AddEvent", req)).st.bookings = bookings
    /\ \A req \in PutRequests : PutEventFinds(Arrived("PutEvent", req)).st.bookings = bookings
    /\ \A req \in DeleteRequests :
          DeleteEventFinds(Arrived("DeleteEvent", req)).st.bookings = bookings
    /\ \A w \in WaitingOn("AddEvent", "upload") : AddEventUploads(w).st.bookings = bookings
    /\ \A w \in WaitingOn("AddEvent", "save") : AddEventSaves(w).st.bookings = bookings
    /\ \A w \in WaitingOn("PutEvent", "upload") : PutEventUploads(w).st.bookings = bookings
    /\ \A w \in WaitingOn("PutEvent", "save") : PutEventSaves(w).st.bookings = bookings
    /\ \A w \in WaitingOn("DeleteEvent", "delete") : DeleteEventDeletes(w).st.bookings = bookings

\* A step keeps every stored booking with its ticket number unless it is the
\* deleteOne of a delete request that read that booking; a step that changes
\* the stored events leaves the bookings as they are.
TicketsOutliveSteps ==
    /\ \A i \in DOMAIN bookings :
          \/ i \in DOMAIN bookings' /\ bookings'[i].ticketNumber = bookings[i].ticketNumber
          \/ \E w \in WaitingOn("DeleteBooking", "delete") :
                /\ w.doc._id = i
                /\ inFlight' = inFlight (-) SetToBag({w})
    /\ events' # events => bookings' = bookings

\* C12: from its creation until its own deletion a booking is reported
\* valid:true by the verify route on its ticket number: no status update, no
\* update or deletion of the event it refers to and no request addressed to
\* another booking changes its ticket number or removes it.
C12_TicketValidUntilDeleted ==
    /\ []VerifiesWhileStored
    /\ []BookingRequestsKeepTickets
    /\ []EventRequestsKeepBookings
    /\ [][TicketsOutliveSteps]_vars

\* The one event ever created has just been deleted; of the two bookings
\* made for it, one is stored, marked paid.
C12_Witness ==
    /\ last.route = "DeleteEvent" /\ last.status = 200
    /\ eventsMade = 1 /\ DOMAIN events = {}
    /\ bookingsMade = 2
    /\ \E i \in DOMAIN bookings :
         /\ DOMAIN bookings = {i}
         /\ bookings[i].eventId = NthEventId(1)
         /\ bookings[i].status = "Paid"

-----------------------------------------------------------------------------
(* Updates never clear a field *)

\* C13: PUT /api/events/:id never clears one of the ten scalar fields: the
\* save of an update keeps a field the body supplies empty at its stored
\* value like a field the body does not supply, and a field that holds a
\* non-empty value before the save holds one after it, whatever the request
\* and its outcome.
C13_PutNeverClears ==
    \A w \in WaitingOn("PutEvent", "save") :
        LET out == PutEventSaves(w)
            id == Denoted(w.req.id)
        IN id \in DOMAIN events =>
             /\ id \in DOMAIN out.st.events
             /\ \A f \in { "title", "description", "date", "location", "category", "address",
                            "standardPrice", "vipPrice", "eventTime", "refreshments" } :
                   /\ (f \notin DOMAIN w.req.body \/ w.req.body[f] = "") =>
                         out.st.events[id][f] = events[id][f]
                   /\ events[id][f] \notin { "", "<undefined>" } =>
                         out.st.events[id][f] \notin { "", "<undefined>" }

\* An update that supplied an empty VIP price with a new standard price went
\* through: the event has the new standard price and the VIP price it was
\* created with.
C13_Witness ==
    /\ last.route = "PutEvent" /\ last.status = 200
    /\ \E i \in DOMAIN events :
         events[i].standardPrice = "0" /\ events[i].vipPrice = "250"

=============================================================================
